---- MODULE Spec2Model ----
(***************************************************************************)
(* Credential subsystem of jurnal_mengajar_desuwa: account registration    *)
(* and authentication over the localStorage registries 'registeredUsers'   *)
(* and 'authCodes'.  Two deployment variants of the same script exist:     *)
(* the auth-code variant (src/unnamed/part_002) and the NIP variant        *)
(* (src/register.js).                                                      *)
(* The login page (src/auth.js) authenticates against the registry and,   *)
(* failing that, against its demo accounts, and writes the session slot.   *)
(*                                                                         *)
(* Strings on which the code works character by character (usernames,     *)
(* passwords, emails, auth codes, NIPs) are sequences of one-character     *)
(* strings; strings that are only stored or compared as a whole (names,    *)
(* roles, subjects) are TLA+ strings.  The empty sequence / empty string   *)
(* is the falsy value of a form field.                                     *)
(***************************************************************************)
EXTENDS Integers, Sequences, FiniteSets, Bags, TLC

VARIABLES
  variant,          \* "code": part_002 is the loaded script; "nip": register.js
  registeredUsers,  \* localStorage['registeredUsers'], parsed
  authCodes,        \* localStorage['authCodes'], parsed
  now,              \* the clock read by Date.now() and new Date()
  pending,          \* bag of the registerUser calls suspended at `await hashPassword`
  ret,              \* outcome handed to the caller of the last finished call
  session,          \* localStorage['userSession'], parsed; <<>> when absent
  remembered,       \* localStorage['rememberUser']; <<>> when absent
  logins,           \* bag of the login submits suspended at `await authenticateUser`
  location,         \* window.location.pathname
  status,           \* "loading": DOMContentLoaded is still to come; "shown": it has
                    \* run; "leaving": shown, with the redirect timer of a login set
  handlers,         \* the listeners the page has set up: "submit", "logout"
  jurnalData,       \* the in-memory list of journal entries of app.js
  storedJurnal,     \* localStorage['jurnalData'], parsed; <<>> when absent
  editingId,        \* id of the entry being edited; <<>> for null
  currentLogo,      \* logoCustomizer.currentLogo
  storedLogo        \* localStorage['appLogo'], parsed; <<>> when absent

vars == <<variant, registeredUsers, authCodes, now, pending, ret, session, remembered, logins,
          location, status, handlers, jurnalData, storedJurnal, editingId,
          currentLogo, storedLogo>>

\* the journal editor of app.js
editorVars == <<jurnalData, storedJurnal, editingId>>

\* the logo customizer of part_001
logoVars == <<currentLogo, storedLogo>>

\* the slots and the submits of the login page
loginVars == <<session, remembered, logins>>

\* the document the browser shows
pageVars == <<location, status, handlers>>

-----------------------------------------------------------------------------
(* Bounds                                                                  *)

MaxPending == 2     \* registerUser calls that may be suspended at once
MaxNow == 2         \* clock values 1..MaxNow
MaxCodes == 2       \* entries the authCodes registry may hold
MaxLogins == 1      \* login submits that may be suspended at once
MaxStr == 4         \* length of the strings the validators are tried on
MaxEntries == 2     \* journal entries the editor creates

-----------------------------------------------------------------------------
(* Character classes of the regular expressions                            *)

Upper == {"A","B","C","D","E","F","G","H","I","J","K","L","M",
          "N","O","P","Q","R","S","T","U","V","W","X","Y","Z"}
Lower == {"a","b","c","d","e","f","g","h","i","j","k","l","m",
          "n","o","p","q","r","s","t","u","v","w","x","y","z"}
Digit == {"0","1","2","3","4","5","6","7","8","9"}
Special == {"!","@","#","$","%","^","&","*","(",")","_","+","-","=","[","]",
            "{","}",";","'",":","\"","\\","|",",",".","<",">","/","?"}
Space == {" ", "\t", "\n", "\r"}

HasChar(s, class) == \E i \in 1..Len(s) : s[i] \in class

\* String.prototype.trim
RECURSIVE trimStart(_)
trimStart(s) == IF s # <<>> /\ Head(s) \in Space THEN trimStart(Tail(s)) ELSE s

RECURSIVE trimEnd(_)
trimEnd(s) ==
  IF s # <<>> /\ s[Len(s)] \in Space THEN trimEnd(SubSeq(s, 1, Len(s) - 1)) ELSE s

trim(s) == trimEnd(trimStart(s))

-----------------------------------------------------------------------------
(* Hashing service                                                         *)

\* SHA-256 of the password, as an opaque collision-free digest value.
hashPassword(password) == [sha256 |-> password]

verifyPassword(password, hash) == hashPassword(password) = hash

-----------------------------------------------------------------------------
(* Validation rules                                                        *)

validateTeacherAuthCode(authCode) == authCode # <<>> /\ Len(trim(authCode)) >= 4

validateTeacherNIP(nip) == Len(nip) = 18 /\ \A i \in 1..Len(nip) : nip[i] \in Digit

\* /^[^\s@]+@[^\s@]+\.[^\s@]+$/
validateEmail(email) ==
  \E i, j \in 1..Len(email) :
    /\ email[i] = "@"
    /\ email[j] = "."
    /\ 1 < i /\ i + 1 < j /\ j < Len(email)
    /\ \A k \in 1..Len(email) : k # i => email[k] \notin Space \cup {"@"}

\* the special character tested as /\W/: any character that is not a letter,
\* a digit or an underscore
validateStrongPassword_nonWord(password) ==
  LET hasUppercase == HasChar(password, Upper)
      hasLowercase == HasChar(password, Lower)
      hasNumber == HasChar(password, Digit)
      hasSpecial == \E i \in 1..Len(password) :
                      password[i] \notin Upper \cup Lower \cup Digit \cup {"_"}
  IN [isStrong |-> hasUppercase /\ hasLowercase /\ hasNumber /\ hasSpecial,
      requirements |-> [uppercase |-> hasUppercase, lowercase |-> hasLowercase,
                        number |-> hasNumber, special |-> hasSpecial]]

validateStrongPassword(password) ==
  LET hasUppercase == HasChar(password, Upper)
      hasLowercase == HasChar(password, Lower)
      hasNumber == HasChar(password, Digit)
      hasSpecial == HasChar(password, Special)
  IN [isStrong |-> hasUppercase /\ hasLowercase /\ hasNumber /\ hasSpecial,
      requirements |-> [uppercase |-> hasUppercase, lowercase |-> hasLowercase,
                        number |-> hasNumber, special |-> hasSpecial]]

\* the quantifier written {2,20}
validateUsername_21(username) ==
  /\ Len(username) >= 3 /\ Len(username) <= 21
  /\ username[1] \in Upper \cup Lower
  /\ \A i \in 2..Len(username) : username[i] \in Upper \cup Lower \cup Digit \cup {"_"}

\* /^[a-zA-Z][a-zA-Z0-9_]{2,19}$/
validateUsername(username) ==
  /\ Len(username) >= 3 /\ Len(username) <= 20
  /\ username[1] \in Upper \cup Lower
  /\ \A i \in 2..Len(username) : username[i] \in Upper \cup Lower \cup Digit \cup {"_"}

VALID_SUBJECTS ==
  <<"Informatika", "Matematika", "Fisika", "Kimia", "Biologi",
    "Bahasa Indonesia", "Bahasa Inggris", "Sejarah", "Geografi",
    "Seni Budaya", "Pendidikan Jasmani", "Agama Islam", "Agama Kristen",
    "Agama Hindu", "Agama Buddha", "Pendidikan Kewarganegaraan", "Ekonomi">>

validateTeacherSubject(subject) ==
  \E i \in 1..Len(VALID_SUBJECTS) : VALID_SUBJECTS[i] = subject

-----------------------------------------------------------------------------
(* Registries                                                              *)

\* Array.prototype.find over the indexes that satisfy the test: the index of
\* the first match, 0 when nothing matches (`undefined`).
first(matches) ==
  IF matches = {} THEN 0 ELSE CHOOSE i \in matches : \A j \in matches : i <= j

\* users.find(u => u.username === username)
findByUsername(users, username) ==
  first({i \in 1..Len(users) : users[i].username = username})

\* the nip looked up among the teacher records only
findByNip_teachers(users, nip) ==
  first({i \in 1..Len(users) : users[i].role = "teacher" /\ users[i].nip = nip})

\* users.find(u => u.nip === nip)
findByNip(users, nip) ==
  first({i \in 1..Len(users) : users[i].nip = nip})

\* codes.find(c => c.code === code)
findCode(codes, code) ==
  first({i \in 1..Len(codes) : codes[i].code = code})

Null == <<>>
toISOString(t) == <<"ISO", t>>

\* isAuthCodeValid: the code has an entry and the entry is unused
isAuthCodeValid(codes, code) ==
  LET entry == findCode(codes, code)
  IN entry # 0 /\ ~codes[entry].used

\* the checks of registerUser, in program order: the error it throws before
\* the hashing await, or OK when it goes on to hash the password
OK == [kind |-> "OK", missing |-> <<>>]
Err(kind) == [kind |-> kind, missing |-> <<>>]

\* the `missing` list of the weak-password message
missingOf(requirements) ==
  (IF requirements.uppercase THEN <<>> ELSE <<"uppercase">>)
  \o (IF requirements.lowercase THEN <<>> ELSE <<"lowercase">>)
  \o (IF requirements.number THEN <<>> ELSE <<"number">>)
  \o (IF requirements.special THEN <<>> ELSE <<"special">>)

\* the teacher checks without the check of the subject
teacherChecks_noSubject(userData, users, codes) ==
  IF variant = "code"
  THEN IF userData.authCode = <<>> \/ ~validateTeacherAuthCode(userData.authCode)
       THEN Err("InvalidTeacherIdentifier")
       ELSE IF ~isAuthCodeValid(codes, userData.authCode)
       THEN Err("IdentifierNotRedeemable")
       ELSE IF userData.email = <<>> \/ ~validateEmail(userData.email)
       THEN Err("InvalidEmail")
       ELSE OK
  ELSE IF userData.nip = <<>> \/ ~validateTeacherNIP(userData.nip)
       THEN Err("InvalidTeacherIdentifier")
       ELSE IF findByNip(users, userData.nip) # 0
       THEN Err("DuplicateTeacherIdentifier")
       ELSE IF userData.email = <<>> \/ ~validateEmail(userData.email)
       THEN Err("InvalidEmail")
       ELSE OK

teacherChecks(userData, users, codes) ==
  IF variant = "code"
  THEN IF userData.authCode = <<>> \/ ~validateTeacherAuthCode(userData.authCode)
       THEN Err("InvalidTeacherIdentifier")
       ELSE IF ~isAuthCodeValid(codes, userData.authCode)
       THEN Err("IdentifierNotRedeemable")
       ELSE IF userData.email = <<>> \/ ~validateEmail(userData.email)
       THEN Err("InvalidEmail")
       ELSE IF userData.mapelMengajar = "" \/ ~validateTeacherSubject(userData.mapelMengajar)
       THEN Err("InvalidSubject")
       ELSE OK
  ELSE IF userData.nip = <<>> \/ ~validateTeacherNIP(userData.nip)
       THEN Err("InvalidTeacherIdentifier")
       ELSE IF findByNip(users, userData.nip) # 0
       THEN Err("DuplicateTeacherIdentifier")
       ELSE IF userData.email = <<>> \/ ~validateEmail(userData.email)
       THEN Err("InvalidEmail")
       ELSE IF userData.mapelMengajar = "" \/ ~validateTeacherSubject(userData.mapelMengajar)
       THEN Err("InvalidSubject")
       ELSE OK

\* the duplicate-username test left out
usernameTaken_never(users, username) == FALSE

\* the duplicate-username test made against the newest record only
usernameTaken_last(users, username) ==
  users # <<>> /\ users[Len(users)].username = username

\* the duplicate-username test: users.find(u => u.username === userData.username)
usernameTaken(users, username) == findByUsername(users, username) # 0

\* the checks with the duplicate-username test moved before the password check
registerChecks_dupFirst(userData, users, codes) ==
  LET passwordCheck == validateStrongPassword(userData.password) IN
  IF \/ userData.username = <<>> \/ userData.password = <<>>
     \/ userData.fullName = "" \/ userData.role = ""
  THEN Err("MissingField")
  ELSE IF ~validateUsername(userData.username)
  THEN Err("InvalidUsername")
  ELSE IF usernameTaken(users, userData.username)
  THEN Err("DuplicateUsername")
  ELSE IF ~passwordCheck.isStrong
  THEN [kind |-> "WeakPassword", missing |-> missingOf(passwordCheck.requirements)]
  ELSE IF userData.role = "teacher"
  THEN teacherChecks(userData, users, codes)
  ELSE OK

registerChecks(userData, users, codes) ==
  LET passwordCheck == validateStrongPassword(userData.password) IN
  IF \/ userData.username = <<>> \/ userData.password = <<>>
     \/ userData.fullName = "" \/ userData.role = ""
  THEN Err("MissingField")
  ELSE IF ~validateUsername(userData.username)
  THEN Err("InvalidUsername")
  ELSE IF ~passwordCheck.isStrong
  THEN [kind |-> "WeakPassword", missing |-> missingOf(passwordCheck.requirements)]
  ELSE IF usernameTaken(users, userData.username)
  THEN Err("DuplicateUsername")
  ELSE IF userData.role = "teacher"
  THEN teacherChecks(userData, users, codes)
  ELSE OK

\* the record built by spreading the input: { ...userData, id, passwordHash,
\* createdAt }
newUser_spread(userData, hashedPassword, t) ==
  LET more == [id |-> t, passwordHash |-> hashedPassword, createdAt |-> toISOString(t)]
  IN [f \in DOMAIN userData \cup DOMAIN more |->
        IF f \in DOMAIN more THEN more[f] ELSE userData[f]]

\* the newUser object literal; the teacher identifier is the field authCode in
\* the auth-code variant and the field nip in the NIP variant
newUser(userData, hashedPassword, t) ==
  LET common == [id |-> t,
                 username |-> userData.username,
                 passwordHash |-> hashedPassword,
                 fullName |-> userData.fullName,
                 email |-> userData.email,
                 role |-> userData.role,
                 nisn |-> userData.nisn,
                 mapelMengajar |-> userData.mapelMengajar,
                 kelasMengajar |-> userData.kelasMengajar,
                 createdAt |-> toISOString(t)]
  IN IF variant = "code"
     THEN [f \in DOMAIN common \cup {"authCode"} |->
             IF f = "authCode" THEN userData.authCode ELSE common[f]]
     ELSE [f \in DOMAIN common \cup {"nip"} |->
             IF f = "nip" THEN userData.nip ELSE common[f]]

\* markAuthCodeUsed flipping the flag of the entry
markAuthCodeUsed_toggle(codes, code, userId, t) ==
  LET entry == findCode(codes, code)
  IN IF entry = 0
     THEN [threw |-> TRUE, codes |-> codes]
     ELSE [threw |-> FALSE,
           codes |-> [codes EXCEPT ![entry] =
                        [@ EXCEPT !.used = ~@, !.usedBy = <<userId>>,
                                  !.usedAt = toISOString(t)]]]

\* markAuthCodeUsed without its saveAuthCodes call
markAuthCodeUsed_unsaved(codes, code, userId, t) ==
  [threw |-> findCode(codes, code) = 0, codes |-> codes]

\* markAuthCodeUsed: the codes to save, or the registry as it is when the
\* lookup throws ('Kode autentikasi tidak ditemukan')
\* markAuthCodeUsed looking for an entry of the code that is not used yet
markAuthCodeUsed_unused(codes, code, userId, t) ==
  LET unused == {i \in 1..Len(codes) : codes[i].code = code /\ ~codes[i].used}
  IN IF unused = {}
     THEN [threw |-> TRUE, codes |-> codes]
     ELSE LET entry == CHOOSE i \in unused : \A j \in unused : i <= j
          IN [threw |-> FALSE,
              codes |-> [codes EXCEPT ![entry] =
                           [@ EXCEPT !.used = TRUE, !.usedBy = <<userId>>,
                                     !.usedAt = toISOString(t)]]]

markAuthCodeUsed(codes, code, userId, t) ==
  LET entry == findCode(codes, code)
  IN IF entry = 0
     THEN [threw |-> TRUE, codes |-> codes]
     ELSE [threw |-> FALSE,
           codes |-> [codes EXCEPT ![entry] =
                        [@ EXCEPT !.used = TRUE, !.usedBy = <<userId>>,
                                  !.usedAt = toISOString(t)]]]

\* the stored record returned as it is
userView_whole(user) == user

\* the object authenticateUser returns, <<>> for null
userView(user) ==
  LET common == [id |-> user.id,
                 username |-> user.username,
                 fullName |-> user.fullName,
                 email |-> user.email,
                 role |-> user.role,
                 nisn |-> user.nisn,
                 mapelMengajar |-> user.mapelMengajar,
                 kelasMengajar |-> user.kelasMengajar]
  IN IF variant = "code"
     THEN [f \in DOMAIN common \cup {"authCode"} |->
             IF f = "authCode" THEN user.authCode ELSE common[f]]
     ELSE [f \in DOMAIN common \cup {"nip"} |->
             IF f = "nip" THEN user.nip ELSE common[f]]

\* authenticateUser without the check of the password
authenticateUser_noVerify(users, username, password) ==
  LET user == findByUsername(users, username)
  IN IF user = 0 THEN Null ELSE <<userView(users[user])>>

authenticateUser(users, username, password) ==
  LET user == findByUsername(users, username)
  IN IF user = 0 THEN Null
     ELSE IF ~verifyPassword(password, users[user].passwordHash) THEN Null
     ELSE <<userView(users[user])>>

\* the demo accounts of the login page
Admin == <<"a","d","m","i","n">>
Riyan == <<"r","i","y","a","n">>
Siti == <<"s","i","t","i">>

DEMO_USERS ==
  (Admin :> [password |-> <<"a","d","m","i","n","1","2","3">>, role |-> "admin",
             fullName |-> "Administrator", email |-> <<"a","d","m","i","n","@","s","e","k","o","l","a","h",".","c","o","m">>])
  @@ (Riyan :> [password |-> <<"g","u","r","u","1","2","3">>, role |-> "teacher",
                fullName |-> "Riyan Setiawan, S.Kom.", email |-> <<"r","i","y","a","n","@","s","e","k","o","l","a","h",".","c","o","m">>])
  @@ (Siti :> [password |-> <<"g","u","r","u","4","5","6">>, role |-> "teacher",
               fullName |-> "Siti Nurhaliza", email |-> <<"s","i","t","i","@","s","e","k","o","l","a","h",".","c","o","m">>])

\* DEMO_USERS[username] && DEMO_USERS[username].password === password
\* a demo account is matched by its username alone
demoMatch_nameOnly(username, password) ==
  username \in DOMAIN DEMO_USERS

demoMatch(username, password) ==
  username \in DOMAIN DEMO_USERS /\ DEMO_USERS[username].password = password

\* sessionData of a login through a registered account
sessionData(user, t) ==
  [id |-> user.id, username |-> user.username, fullName |-> user.fullName,
   role |-> user.role, email |-> user.email, loginTime |-> toISOString(t)]

\* sessionData of a login through a demo account
demoSessionData(username, t) ==
  [username |-> username, fullName |-> DEMO_USERS[username].fullName,
   role |-> DEMO_USERS[username].role, email |-> DEMO_USERS[username].email,
   loginTime |-> toISOString(t)]

\* the texts of showError and showSuccess
FieldsRequired == "Nama pengguna dan kata sandi harus diisi"
WrongCredentials == "Nama pengguna atau kata sandi salah"
Welcome == "login berhasil"

-----------------------------------------------------------------------------
(* Inputs of the calls                                                     *)

NoName == <<>>
BadName == <<"1","a","b">>
Abc == <<"a","b","c">>
Dee == <<"d","_","1">>

NoPass == <<>>
WeakPass == <<"A","a","1">>
StrongPass == <<"A","a","1","!">>
Passwords == {NoPass, WeakPass, StrongPass}

NoMail == <<>>
BadMail == <<"a","@","b">>
GoodMail == <<"a","@","b",".","c">>
Emails == {NoMail, BadMail, GoodMail}

Guru == <<"G","U","R","U">>
Kode == <<"K","O","1","2">>
ShortCode == <<"a","b","c">>
PaddedGuru == <<" ">> \o Guru
CodesIssued == {Guru, PaddedGuru}

NipA == <<"1","2","3","4","5","6","7","8","9","0","1","2","3","4","5","6","7","8">>
ShortNip == <<"1","2","3","4","5">>

Subjects == {"", "Olahraga", "Informatika"}

\* the userData object of variant v; the teacher identifier t is passed as
\* authCode to the auth-code variant and as nip to the NIP variant
UserData(v, u, p, f, r, e, n, t, m, k) ==
  IF v = "code"
  THEN [username |-> u, password |-> p, fullName |-> f, role |-> r, email |-> e,
        nisn |-> n, authCode |-> t, mapelMengajar |-> m, kelasMengajar |-> k]
  ELSE [username |-> u, password |-> p, fullName |-> f, role |-> r, email |-> e,
        nisn |-> n, nip |-> t, mapelMengajar |-> m, kelasMengajar |-> k]

\* teacher identifiers a form may present: none, too short, well-formed and
\* issued / new, well-formed and never issued (auth-code variant)
GoodId(v) == IF v = "code" THEN Guru ELSE NipA
TeacherIds(v) ==
  IF v = "code" THEN {<<>>, ShortCode, Guru, Kode} ELSE {<<>>, ShortNip, NipA}

\* the teacher form filled in correctly by the user `u`
Teacher(v, u) ==
  UserData(v, u, StrongPass, "Siti", "teacher", GoodMail, "", GoodId(v), "Informatika", "9A")

\* a form filled in as in the README example: role r (student, or a role the
\* forms do not offer) with the teacher fields filled in as well
Student(v, u, r) ==
  UserData(v, u, StrongPass, "Budi", r, GoodMail, "0012", GoodId(v), "Informatika", "")

\* the inputs of concurrent callers: correct forms, and a few forms that a
\* check rejects
SmallInputs(v) ==
  { Teacher(v, Abc), Teacher(v, Dee), Student(v, Abc, "student"),
    [Teacher(v, Abc) EXCEPT !.password = WeakPass],
    [Teacher(v, Dee) EXCEPT !.email = BadMail] }

\* number of fields in which the form d differs from the form b
Defects(d, b) == Cardinality({f \in DOMAIN b : d[f] # b[f]})

\* the inputs of a single caller: the correct forms, and every teacher form
\* with one or two fields left empty or filled in wrongly
TeacherForms(v) ==
  { UserData(v, u, p, f, "teacher", e, "", t, m, "9A") :
      u \in {NoName, BadName, Abc}, p \in Passwords, f \in {"", "Siti"},
      e \in Emails, t \in TeacherIds(v), m \in Subjects }

StudentForms(v) ==
  { UserData(v, u, p, f, r, GoodMail, "0012", GoodId(v), "Informatika", "") :
      u \in {BadName, Abc}, p \in {WeakPass, StrongPass}, f \in {"", "Budi"},
      r \in {"", "student"} }

FormInputs(v) ==
  {d \in TeacherForms(v) : Defects(d, Teacher(v, Abc)) <= 2}
  \cup {d \in StudentForms(v) : Defects(d, Student(v, Abc, "student")) <= 2}
  \cup {Teacher(v, Dee), Student(v, Dee, "admin")}

InputsCode == SmallInputs("code")
InputsNip == SmallInputs("nip")
FormInputsCode == FormInputs("code")
FormInputsNip == FormInputs("nip")

Inputs == IF variant = "code" THEN InputsCode ELSE InputsNip
AllInputs == IF variant = "code" THEN FormInputsCode ELSE FormInputsNip

\* the login page: the accounts registered meanwhile, one of them under the
\* username of a demo account, and what is typed into the login form
RegistersCode == {Student("code", Abc, "student"), Student("code", Riyan, "student")}
RegistersNip == {Student("nip", Abc, "student"), Student("nip", Riyan, "student")}
Registers == IF variant = "code" THEN RegistersCode ELSE RegistersNip
PaddedAbc == Abc \o <<" ">>
Guru123 == DEMO_USERS[Riyan].password
TypedNames == {NoName, Abc, PaddedAbc, Riyan}
TypedPasswords == {NoPass, WeakPass, StrongPass, Guru123}

\* the pages: pathnames the browser may be pointed at, and the relative URLs
\* of the redirects
LoginHtml == <<"l","o","g","i","n",".","h","t","m","l">>
IndexHtml == <<"i","n","d","e","x",".","h","t","m","l">>
Root == <<"/">>
LoginPath == Root \o LoginHtml
IndexPath == Root \o IndexHtml
RegisterPath == <<"/","r","e","g","i","s","t","e","r",".","h","t","m","l">>
Paths == {Root, LoginPath, IndexPath, RegisterPath}

\* String.prototype.includes
includes(str, sub) ==
  \E i \in 0..(Len(str) - Len(sub)) : SubSeq(str, i + 1, i + Len(sub)) = sub

\* the pathname a relative URL resolves to: the directory of the current
\* pathname followed by the URL
resolve(pathname, href) ==
  LET slashes == {i \in 1..Len(pathname) : pathname[i] = "/"}
      dir == CHOOSE i \in slashes : \A j \in slashes : j <= i
  IN SubSeq(pathname, 1, dir) \o href

\* every .html page, and the root, taken as the login page
isLoginPage_html(currentPage) ==
  includes(currentPage, <<".","h","t","m","l">>) \/ currentPage = Root

isLoginPage(currentPage) == includes(currentPage, LoginHtml) \/ currentPage = Root
\* the pathname compared with the name of the protected page
isAuthPage_exact(currentPage) == currentPage = IndexHtml

isAuthPage(currentPage) == includes(currentPage, IndexHtml)

\* the strings the validators are tried on: every string of at most MaxStr
\* characters over an uppercase letter, a lowercase letter, a digit, the
\* underscore and the space
Alphabet == {"A", "a", "1", "_", " "}
Strings == UNION {[1..n -> Alphabet] : n \in 0..MaxStr}

\* the teacher form with the password p and the teacher identifier left
\* empty: registerUser throws at the password or, past it, at the identifier
PasswordForm(v, p) ==
  UserData(v, Abc, p, "Siti", "teacher", GoodMail, "", <<>>, "Informatika", "9A")

PasswordFormsCode == {PasswordForm("code", p) : p \in Strings}
PasswordFormsNip == {PasswordForm("nip", p) : p \in Strings}
PasswordForms == IF variant = "code" THEN PasswordFormsCode ELSE PasswordFormsNip

\* the usernames the validators are tried on: the short strings, and strings
\* of 18 to 22 characters made of at most one character and a run of "x"
Fill(n) == [i \in 1..n |-> "x"]
LongNames == {prefix \o Fill(n) : prefix \in {str \in Strings : Len(str) <= 1}, n \in 18..21}
Names == Strings \cup LongNames

\* the teacher form with the username u and the teacher identifier left empty
UsernameForm(v, u) ==
  UserData(v, u, StrongPass, "Siti", "teacher", GoodMail, "", <<>>, "Informatika", "9A")

UsernameFormsCode == {UsernameForm("code", u) : u \in Names}
UsernameFormsNip == {UsernameForm("nip", u) : u \in Names}
UsernameForms == IF variant = "code" THEN UsernameFormsCode ELSE UsernameFormsNip

-----------------------------------------------------------------------------
(* Logo customizer (src/unnamed/part_001)                                 *)

\* LOGO_TEMPLATES: the emoji, the colors and the bgClass of each template
LOGO_TEMPLATES ==
  [modern |-> [name |-> "Modern", emoji |-> "",
               colors |-> <<"from-purple-400", "to-pink-400">>,
               bgClass |-> "bg-gradient-to-br"],
   academic |-> [name |-> "Academic", emoji |-> "",
                 colors |-> <<"from-blue-500", "to-blue-700">>,
                 bgClass |-> "bg-gradient-to-br"],
   creative |-> [name |-> "Creative", emoji |-> "",
                 colors |-> <<"from-yellow-400", "to-orange-500">>,
                 bgClass |-> "bg-gradient-to-br"],
   professional |-> [name |-> "Professional", emoji |-> "",
                     colors |-> <<"from-gray-700", "to-gray-900">>,
                     bgClass |-> "bg-gradient-to-br"],
   vibrant |-> [name |-> "Vibrant", emoji |-> "",
                colors |-> <<"from-red-500", "to-yellow-500">>,
                bgClass |-> "bg-gradient-to-br"]]

\* the properties every object literal inherits from Object.prototype, which
\* a lookup by a computed name finds as well; each is a function or an
\* object, with a `name` at most and no emoji, colors or bgClass
ObjectPrototype ==
  [constructor |-> [name |-> "Object"],
   toString |-> [name |-> "toString"],
   valueOf |-> [name |-> "valueOf"],
   hasOwnProperty |-> [name |-> "hasOwnProperty"]]

\* LOGO_TEMPLATES[templateName]: the own property, else the inherited one,
\* else undefined (Null)
templateOf(templateName) ==
  IF templateName \in DOMAIN LOGO_TEMPLATES THEN <<LOGO_TEMPLATES[templateName]>>
  ELSE IF templateName \in DOMAIN ObjectPrototype THEN <<ObjectPrototype[templateName]>>
  ELSE Null

\* an object with the properties that are not undefined: a property whose
\* value is undefined is left out, as it is by JSON.stringify
object(fields, from) ==
  [f \in {g \in fields : g \in DOMAIN from} |-> from[f]]

\* the logo loadLogo returns when nothing is stored
DefaultLogo ==
  [template |-> "modern", emoji |-> LOGO_TEMPLATES.modern.emoji,
   colors |-> LOGO_TEMPLATES.modern.colors, customText |-> "", size |-> "base"]

\* loadLogo(): the stored logo, or the default one
loadLogo(saved) == IF saved # Null THEN saved[1] ELSE DefaultLogo

\* the names, emoji, colors, texts and sizes the setters are called with
TemplateArgs == {"modern", "academic", "nope", "constructor"}
EmojiArgs == {"star"}
ColorArgs == {<<"from-red-500", "to-blue-500">>}
TextArgs == {"", "SMA"}
SizeArgs == {"sm", "huge"}

-----------------------------------------------------------------------------
(* Initial state: both registries empty, nothing in flight                 *)

NoRet == [op |-> "none"]

Init ==
  /\ variant \in {"code", "nip"}
  /\ registeredUsers = <<>>
  /\ authCodes = <<>>
  /\ now = 1
  /\ pending = EmptyBag
  /\ ret = NoRet
  /\ session = Null
  /\ remembered = Null
  /\ logins = EmptyBag
  /\ location = LoginPath
  /\ status = "loading"
  /\ handlers = {}
  /\ jurnalData = <<>>
  /\ storedJurnal = <<>>
  /\ editingId = Null
  /\ currentLogo = DefaultLogo
  /\ storedLogo = Null

-----------------------------------------------------------------------------
(* Operations                                                              *)

\* the clock advances
Tick ==
  /\ ret.op = "none"
  /\ now < MaxNow
  /\ now' = now + 1
  /\ UNCHANGED <<pageVars, loginVars, editorVars, logoVars, variant, registeredUsers, authCodes, pending, ret>>

\* createAuthCode(code): throws when an entry has the code as given, otherwise
\* appends an unused entry that holds the trimmed code
CreateAuthCode(code) ==
  /\ ret.op = "none"
  /\ variant = "code"
  /\ IF findCode(authCodes, code) # 0
     THEN /\ ret' = [op |-> "createAuthCode", code |-> code, threw |-> TRUE,
                     error |-> Err("DuplicateCode")]
          /\ UNCHANGED authCodes
     ELSE LET entry == [code |-> trim(code), used |-> FALSE, createdBy |-> "admin",
                        createdAt |-> toISOString(now), usedBy |-> Null,
                        usedAt |-> Null]
          IN /\ Len(authCodes) < MaxCodes
             /\ authCodes' = Append(authCodes, entry)
             /\ ret' = [op |-> "createAuthCode", code |-> code, threw |-> FALSE,
                        value |-> entry]
  /\ UNCHANGED <<pageVars, loginVars, editorVars, logoVars, variant, registeredUsers, now, pending>>

\* markAuthCodeUsed(code, userId) called on its own
MarkAuthCodeUsed(code, userId) ==
  /\ ret.op = "none"
  /\ variant = "code"
  /\ LET marked == markAuthCodeUsed(authCodes, code, userId, now)
     IN /\ authCodes' = marked.codes
        /\ ret' = [op |-> "markAuthCodeUsed", code |-> code, userId |-> userId,
                   threw |-> marked.threw]
  /\ UNCHANGED <<pageVars, loginVars, editorVars, logoVars, variant, registeredUsers, now, pending>>

\* registerUser marking the auth code before it validates the email
reject_marks(userData, error) ==
  /\ ret' = [op |-> "registerUser", userData |-> userData, threw |-> TRUE,
             error |-> error]
  /\ authCodes' = IF variant = "code" /\ error.kind = "InvalidEmail"
                  THEN markAuthCodeUsed(authCodes, userData.authCode, now, now).codes
                  ELSE authCodes
  /\ UNCHANGED <<pageVars, loginVars, editorVars, logoVars, variant, registeredUsers, now, pending>>

\* registerUser throws: nothing is written
reject(userData, error) ==
  /\ ret' = [op |-> "registerUser", userData |-> userData, threw |-> TRUE,
             error |-> error]
  /\ UNCHANGED <<pageVars, loginVars, editorVars, logoVars, variant, registeredUsers, authCodes, now, pending>>

\* registerUser reaches `await hashPassword` holding the users it has read
suspend(userData, users) ==
  /\ BagCardinality(pending) < MaxPending
  /\ pending' = pending (+) SetToBag({[userData |-> userData, users |-> users]})
  /\ UNCHANGED <<pageVars, loginVars, editorVars, logoVars, variant, registeredUsers, authCodes, now, ret>>

\* registerUser(userData) up to the hashing await
RegisterCall(userData) ==
  /\ ret.op = "none"
  /\ LET users == registeredUsers
         error == registerChecks(userData, users, authCodes)
     IN IF error # OK THEN reject(userData, error) ELSE suspend(userData, users)

\* the users array after users.push(newUser)
push(users, user) == Append(users, user)

\* markAuthCodeUsed when localStorage.setItem throws in saveAuthCodes (the
\* storage quota is exceeded): nothing is stored
markAuthCodeUsedFull(codes, code, userId, t) == [threw |-> TRUE, codes |-> codes]

\* the error of markAuthCodeUsed thrown on to the caller of registerUser
returned_rethrow(userData, user, markThrew) ==
  IF markThrew
  THEN [op |-> "registerUser", userData |-> userData, threw |-> TRUE,
        error |-> Err("MarkFailed"), markThrew |-> markThrew]
  ELSE [op |-> "registerUser", userData |-> userData, threw |-> FALSE,
        value |-> user.id, markThrew |-> markThrew]

\* the end of registerUser: the error of markAuthCodeUsed is caught and
\* logged, and newUser.id is returned
returned(userData, user, markThrew) ==
  [op |-> "registerUser", userData |-> userData, threw |-> FALSE,
   value |-> user.id, markThrew |-> markThrew]

\* registerUser from the hashing await to its return, marking the auth code
\* of any input that carries one
resume_anyRole(call, full) ==
  /\ ret.op = "none"
  /\ BagIn(call, pending)
  /\ LET userData == call.userData
         users == call.users
         hashedPassword == hashPassword(userData.password)
         user == newUser(userData, hashedPassword, now)
         marks == variant = "code" /\ userData.authCode # <<>>
         marked == IF full
                   THEN markAuthCodeUsedFull(authCodes, userData.authCode, user.id, now)
                   ELSE markAuthCodeUsed(authCodes, userData.authCode, user.id, now)
     IN /\ full => marks
        /\ registeredUsers' = push(users, user)
        /\ authCodes' = IF marks THEN marked.codes ELSE authCodes
        /\ ret' = returned(userData, user, marks /\ marked.threw)
  /\ pending' = pending (-) SetToBag({call})
  /\ UNCHANGED <<pageVars, loginVars, editorVars, logoVars, variant, now>>

\* registerUser from the hashing await to its return; `full` tells whether
\* the storage is full when the auth codes are saved
resume(call, full) ==
  /\ ret.op = "none"
  /\ BagIn(call, pending)
  /\ LET userData == call.userData
         users == call.users
         hashedPassword == hashPassword(userData.password)
         user == newUser(userData, hashedPassword, now)
         marks == variant = "code" /\ userData.role = "teacher" /\ userData.authCode # <<>>
         marked == IF full
                   THEN markAuthCodeUsedFull(authCodes, userData.authCode, user.id, now)
                   ELSE markAuthCodeUsed(authCodes, userData.authCode, user.id, now)
     IN /\ full => marks
        /\ registeredUsers' = push(users, user)
        /\ authCodes' = IF marks THEN marked.codes ELSE authCodes
        /\ ret' = returned(userData, user, marks /\ marked.threw)
  /\ pending' = pending (-) SetToBag({call})
  /\ UNCHANGED <<pageVars, loginVars, editorVars, logoVars, variant, now>>

\* registerUser from the hashing await to its return
RegisterResume(call) == resume(call, FALSE)

\* registerUser from the hashing await to its return when marking the auth
\* code fails at the save
RegisterResumeFull(call) == resume(call, TRUE)

\* authenticateUser(username, password); the caller may make the call right
\* when its registerUser call has returned
Authenticate(username, password) ==
  /\ ret.op = "none" \/ (ret.op = "registerUser" /\ ~ret.threw)
  /\ ret' = [op |-> "authenticateUser", username |-> username, password |-> password,
             value |-> authenticateUser(registeredUsers, username, password),
             after |-> ret]
  /\ UNCHANGED <<pageVars, loginVars, editorVars, logoVars, variant, registeredUsers, authCodes, now, pending>>

\* setTimeout(() => { window.location.href = 'index.html' }, 500): the timer
\* is of the document that is shown
setTimeout(st) == IF st = "shown" THEN "leaving" ELSE st

\* the submit handler of the login form up to `await authenticateUser`, which
\* has read the registry; `registered` notes whether it found the username
LoginSubmit(typed, password) ==
  /\ ret.op = "none"
  /\ LET username == trim(typed)
     IN IF username = <<>> \/ password = <<>>
        THEN /\ ret' = [op |-> "login", username |-> username, password |-> password,
                        outcome |-> "empty", message |-> FieldsRequired]
             /\ UNCHANGED logins
        ELSE /\ BagCardinality(logins) < MaxLogins
             /\ logins' = logins (+) SetToBag({
                   [username |-> username, password |-> password,
                    user |-> authenticateUser(registeredUsers, username, password),
                    registered |-> findByUsername(registeredUsers, username) # 0]})
             /\ UNCHANGED ret
  /\ UNCHANGED <<pageVars, session, remembered, editorVars, logoVars, variant, registeredUsers, authCodes, now, pending>>

\* the submit handler from the await on, leaving the remembered username
\* alone when the box is not checked
LoginResume_keepRemembered(submit, checked) ==
  /\ ret.op = "none"
  /\ BagIn(submit, logins)
  /\ LET username == submit.username
         remember == IF checked THEN <<username>> ELSE remembered
         outcome == [op |-> "login", username |-> username,
                     password |-> submit.password, registered |-> submit.registered,
                     checked |-> checked]
     IN IF submit.user # Null
        THEN /\ session' = <<sessionData(submit.user[1], now)>>
             /\ remembered' = remember
             /\ status' = setTimeout(status)
             /\ ret' = outcome @@ [outcome |-> "registered", message |-> Welcome]
        ELSE IF demoMatch(username, submit.password)
        THEN /\ session' = <<demoSessionData(username, now)>>
             /\ remembered' = remember
             /\ status' = setTimeout(status)
             /\ ret' = outcome @@ [outcome |-> "demo", message |-> Welcome]
        ELSE /\ ret' = outcome @@ [outcome |-> "failed", message |-> WrongCredentials]
             /\ UNCHANGED <<session, remembered, status>>
  /\ logins' = logins (-) SetToBag({submit})
  /\ UNCHANGED <<location, handlers, editorVars, logoVars, variant, registeredUsers, authCodes, now, pending>>

\* the submit handler from the await on; `checked` is rememberMe.checked
LoginResume(submit, checked) ==
  /\ ret.op = "none"
  /\ BagIn(submit, logins)
  /\ LET username == submit.username
         remember == IF checked THEN <<username>> ELSE Null
         outcome == [op |-> "login", username |-> username,
                     password |-> submit.password, registered |-> submit.registered,
                     checked |-> checked]
     IN IF submit.user # Null
        THEN /\ session' = <<sessionData(submit.user[1], now)>>
             /\ remembered' = remember
             /\ status' = setTimeout(status)
             /\ ret' = outcome @@ [outcome |-> "registered", message |-> Welcome]
        ELSE IF demoMatch(username, submit.password)
        THEN /\ session' = <<demoSessionData(username, now)>>
             /\ remembered' = remember
             /\ status' = setTimeout(status)
             /\ ret' = outcome @@ [outcome |-> "demo", message |-> Welcome]
        ELSE /\ ret' = outcome @@ [outcome |-> "failed", message |-> WrongCredentials]
             /\ UNCHANGED <<session, remembered, status>>
  /\ logins' = logins (-) SetToBag({submit})
  /\ UNCHANGED <<location, handlers, editorVars, logoVars, variant, registeredUsers, authCodes, now, pending>>

\* the browser is pointed at a page
Navigate(pathname) ==
  /\ ret.op = "none"
  /\ location' = pathname
  /\ status' = "loading"
  /\ handlers' = {}
  /\ UNCHANGED <<loginVars, editorVars, logoVars, variant, registeredUsers, authCodes, now, pending, ret>>

\* the DOMContentLoaded handler; loginForm and logoutBtn tell whether the
\* document has these elements.  The submits of the document that was shown
\* before are gone with it.
DOMContentLoaded(loginForm, logoutBtn) ==
  /\ ret.op = "none"
  /\ status = "loading"
  /\ LET currentPage == location
         userSession == session
         redirect == IF isAuthPage(currentPage) /\ userSession = Null THEN LoginHtml
                     ELSE IF isLoginPage(currentPage) /\ userSession # Null THEN IndexHtml
                     ELSE Null
     IN /\ IF redirect # Null
           THEN /\ location' = resolve(location, redirect)
                /\ UNCHANGED <<status, handlers>>
           ELSE /\ status' = "shown"
                /\ handlers' = (IF loginForm THEN {"submit"} ELSE {})
                                  \cup (IF logoutBtn THEN {"logout"} ELSE {})
                /\ UNCHANGED location
        /\ ret' = [op |-> "load", currentPage |-> currentPage,
                   userSession |-> userSession, redirect |-> redirect]
  /\ logins' = EmptyBag
  /\ UNCHANGED <<session, remembered, editorVars, logoVars, variant, registeredUsers, authCodes, now, pending>>

\* the redirect timer of a login fires
Timeout ==
  /\ ret.op = "none"
  /\ status = "leaving"
  /\ location' = resolve(location, IndexHtml)
  /\ status' = "loading"
  /\ handlers' = {}
  /\ UNCHANGED <<loginVars, editorVars, logoVars, variant, registeredUsers, authCodes, now, pending, ret>>

\* logout() that removes the session slot only
Logout_keepRemembered(confirmed) ==
  /\ ret.op = "none"
  /\ ret' = [op |-> "logout", confirmed |-> confirmed,
             userSession |-> session, rememberUser |-> remembered]
  /\ IF confirmed
     THEN /\ session' = Null
          /\ location' = resolve(location, LoginHtml)
          /\ status' = "loading"
          /\ handlers' = {}
          /\ UNCHANGED remembered
     ELSE UNCHANGED <<session, remembered, pageVars>>
  /\ UNCHANGED <<logins, editorVars, logoVars, variant, registeredUsers, authCodes, now, pending>>

\* logout(); `confirmed` is the answer to the confirm dialog; the outcome
\* keeps the two slots as the call found them
Logout(confirmed) ==
  /\ ret.op = "none"
  /\ ret' = [op |-> "logout", confirmed |-> confirmed,
             userSession |-> session, rememberUser |-> remembered]
  /\ IF confirmed
     THEN /\ session' = Null
          /\ remembered' = Null
          /\ location' = resolve(location, LoginHtml)
          /\ status' = "loading"
          /\ handlers' = {}
     ELSE UNCHANGED <<session, remembered, pageVars>>
  /\ UNCHANGED <<logins, editorVars, logoVars, variant, registeredUsers, authCodes, now, pending>>

\* validateStrongPassword(password) called on its own
ValidateStrongPassword(password) ==
  /\ ret.op = "none"
  /\ ret' = [op |-> "validateStrongPassword", password |-> password,
             value |-> validateStrongPassword(password)]
  /\ UNCHANGED <<pageVars, loginVars, editorVars, logoVars, variant, registeredUsers, authCodes, now, pending>>

\* validateUsername(username) called on its own
ValidateUsername(username) ==
  /\ ret.op = "none"
  /\ ret' = [op |-> "validateUsername", username |-> username,
             value |-> validateUsername(username)]
  /\ UNCHANGED <<pageVars, loginVars, editorVars, logoVars, variant, registeredUsers, authCodes, now, pending>>

\* the fields of the journal form that are typed: kelas and uraianMateri
\* stand for the eight fields read from the document
JurnalForms ==
  {[kelas |-> "X-1", uraianMateri |-> "aljabar"],
   [kelas |-> "X-2", uraianMateri |-> "geometri"]}

\* jurnalData.findIndex(j => j.id === id); 0 when there is none
findJurnal(list, id) == first({i \in 1..Len(list) : list[i].id = id})

\* jurnalData.filter(j => j.id !== id)
filterOut(list, id) == SelectSeq(list, LAMBDA j : j.id # id)

\* the script is loaded: jurnalData is read from the storage, editingId is null
AppLoad ==
  /\ ret.op = "none"
  /\ jurnalData' = storedJurnal
  /\ editingId' = Null
  /\ ret' = [op |-> "appLoad"]
  /\ UNCHANGED <<storedJurnal, pageVars, loginVars, logoVars, variant, registeredUsers, authCodes,
                 now, pending>>

\* handleSubmit(e): the entry is built, put in place or pushed, saved, and
\* the form is reset.  In edit mode `jurnalData.find(...).createdAt` throws a
\* TypeError when no entry has the id, and the handler ends there.
handleSubmit(form) ==
  IF editingId # Null
  THEN LET index == findJurnal(jurnalData, editingId[1])
       IN IF index = 0
          THEN /\ ret' = [op |-> "handleSubmit", form |-> form, editing |-> editingId,
                          threw |-> TRUE]
               /\ UNCHANGED editorVars
          ELSE LET formData == [id |-> editingId[1], kelas |-> form.kelas,
                                uraianMateri |-> form.uraianMateri,
                                createdAt |-> jurnalData[index].createdAt]
               IN /\ jurnalData' = [jurnalData EXCEPT ![index] = formData]
                  /\ storedJurnal' = jurnalData'
                  /\ editingId' = Null
                  /\ ret' = [op |-> "handleSubmit", form |-> form,
                             editing |-> editingId, threw |-> FALSE]
  ELSE LET formData == [id |-> now, kelas |-> form.kelas,
                        uraianMateri |-> form.uraianMateri,
                        createdAt |-> toISOString(now)]
       IN /\ Len(jurnalData) < MaxEntries
          /\ jurnalData' = Append(jurnalData, formData)
          /\ storedJurnal' = jurnalData'
          /\ editingId' = Null
          /\ ret' = [op |-> "handleSubmit", form |-> form, editing |-> editingId,
                     threw |-> FALSE]

HandleSubmit(form) ==
  /\ ret.op = "none"
  /\ handleSubmit(form)
  /\ UNCHANGED <<pageVars, loginVars, logoVars, variant, registeredUsers, authCodes, now, pending>>

\* editJurnal(id)
EditJurnal(id) ==
  /\ ret.op = "none"
  /\ editingId' = IF findJurnal(jurnalData, id) = 0 THEN editingId ELSE <<id>>
  /\ ret' = [op |-> "editJurnal", id |-> id]
  /\ UNCHANGED <<jurnalData, storedJurnal, pageVars, loginVars, logoVars, variant, registeredUsers,
                 authCodes, now, pending>>

\* deleteJurnal(id); `confirmed` is the answer to the confirm dialog
DeleteJurnal(id, confirmed) ==
  /\ ret.op = "none"
  /\ ret' = [op |-> "deleteJurnal", id |-> id, confirmed |-> confirmed]
  /\ IF confirmed
     THEN /\ jurnalData' = filterOut(jurnalData, id)
          /\ storedJurnal' = jurnalData'
     ELSE UNCHANGED <<jurnalData, storedJurnal>>
  /\ UNCHANGED <<editingId, pageVars, loginVars, logoVars, variant, registeredUsers, authCodes,
                 now, pending>>

\* cancelEdit(), which is resetForm()
CancelEdit ==
  /\ ret.op = "none"
  /\ editingId' = Null
  /\ ret' = [op |-> "cancelEdit"]
  /\ UNCHANGED <<jurnalData, storedJurnal, pageVars, loginVars, logoVars, variant, registeredUsers,
                 authCodes, now, pending>>

\* initLocalStorage(): the stored list is set to [] and the table is rendered
\* from the in-memory list; the outcome keeps the list as the call found it
InitLocalStorage ==
  /\ ret.op = "none"
  /\ storedJurnal' = <<>>
  /\ ret' = [op |-> "initLocalStorage", jurnalData |-> jurnalData]
  /\ UNCHANGED <<jurnalData, editingId, pageVars, loginVars, logoVars, variant, registeredUsers,
                 authCodes, now, pending>>

\* new LogoCustomizer(): the script is loaded
LogoLoad ==
  /\ ret.op = "none"
  /\ currentLogo' = loadLogo(storedLogo)
  /\ ret' = [op |-> "logoLoad"]
  /\ UNCHANGED <<storedLogo, editorVars, pageVars, loginVars, variant, registeredUsers,
                 authCodes, now, pending>>

\* saveLogo(logo)
saveLogo(logo) ==
  /\ currentLogo' = logo
  /\ storedLogo' = <<logo>>

\* a setter that assigns one property of currentLogo and saves it
setProperty(name, arg, field) ==
  /\ ret.op = "none"
  /\ saveLogo([f \in DOMAIN currentLogo \cup {field} |->
                 IF f = field THEN arg ELSE currentLogo[f]])
  /\ ret' = [op |-> name, arg |-> arg]
  /\ UNCHANGED <<editorVars, pageVars, loginVars, variant, registeredUsers, authCodes,
                 now, pending>>

\* value || other, for strings
orElse(value, other) == IF value = "" THEN other ELSE value

\* setTemplate(templateName)
SetTemplate(templateName) ==
  /\ ret.op = "none"
  /\ LET template == templateOf(templateName)
     IN IF template # Null
        THEN /\ saveLogo([template |-> templateName,
                          customText |-> orElse(currentLogo.customText, ""),
                          size |-> orElse(currentLogo.size, "base")]
                         @@ object({"emoji", "colors"}, template[1]))
             /\ ret' = [op |-> "setTemplate", templateName |-> templateName,
                        value |-> TRUE]
        ELSE /\ ret' = [op |-> "setTemplate", templateName |-> templateName,
                        value |-> FALSE]
             /\ UNCHANGED <<currentLogo, storedLogo>>
  /\ UNCHANGED <<editorVars, pageVars, loginVars, variant, registeredUsers, authCodes,
                 now, pending>>

SetEmoji(emoji) == setProperty("setEmoji", emoji, "emoji")
SetColors(colors) == setProperty("setColors", colors, "colors")
SetCustomText(text) == setProperty("setCustomText", text, "customText")
SetSize(size) == setProperty("setSize", size, "size")

\* sizeClasses[size] || sizeClasses['base']
sizeClass(size) ==
  IF size = "sm" THEN "w-12 h-12"
  ELSE IF size = "lg" THEN "w-20 h-20"
  ELSE IF size = "xl" THEN "w-24 h-24"
  ELSE "w-16 h-16"

\* getHTML(): destructuring colors throws a TypeError when the logo has no
\* colors; a bgClass that is undefined is written out as 'undefined'
GetHTML ==
  /\ ret.op = "none"
  /\ ret' = IF "colors" \notin DOMAIN currentLogo
            THEN [op |-> "getHTML", threw |-> TRUE]
            ELSE LET template == templateOf(currentLogo.template)[1]
                 IN [op |-> "getHTML", threw |-> FALSE,
                     sizeClass |-> sizeClass(currentLogo.size),
                     bgClass |-> IF "bgClass" \in DOMAIN template
                                 THEN template.bgClass ELSE "undefined",
                     colors |-> currentLogo.colors]
  /\ UNCHANGED <<logoVars, editorVars, pageVars, loginVars, variant, registeredUsers,
                 authCodes, now, pending>>

\* the caller has taken the outcome of its call
Deliver ==
  /\ ret.op # "none"
  /\ ret' = NoRet
  /\ UNCHANGED <<pageVars, loginVars, editorVars, logoVars, variant, registeredUsers, authCodes, now, pending>>

\* concurrent callers
Next ==
  \/ Tick
  \/ \E code \in CodesIssued : CreateAuthCode(code)
  \/ \E userData \in Inputs : RegisterCall(userData)
  \/ \E call \in BagToSet(pending) : RegisterResume(call)
  \/ \E username \in {Abc, Dee}, password \in {WeakPass, StrongPass} :
       Authenticate(username, password)
  \/ Deliver

Spec == Init /\ [][Next]_vars

\* a single caller, which awaits each registerUser call before its next call
Idle == pending = EmptyBag

SeqNext ==
  \/ Tick
  \/ \E code \in CodesIssued : CreateAuthCode(code)
  \/ \E userData \in AllInputs : Idle /\ RegisterCall(userData)
  \/ \E call \in BagToSet(pending) : RegisterResume(call)
  \/ \E username \in {Abc, Dee}, password \in {WeakPass, StrongPass} :
       Authenticate(username, password)
  \/ Deliver

SeqSpec == Init /\ [][SeqNext]_vars

\* concurrent callers, and markAuthCodeUsed called from the console
AdminNext ==
  \/ Next
  \/ \E code \in {Guru, Kode}, userId \in 1..MaxNow : MarkAuthCodeUsed(code, userId)

AdminSpec == Init /\ [][AdminNext]_vars

\* concurrent callers on a storage that may be full when the auth codes are
\* saved
FullNext ==
  \/ Next
  \/ \E call \in BagToSet(pending) : RegisterResumeFull(call)

FullSpec == Init /\ [][FullNext]_vars

\* the login page, while accounts are registered one at a time
LoginNext ==
  \/ Tick
  \/ \E userData \in Registers : Idle /\ RegisterCall(userData)
  \/ \E call \in BagToSet(pending) : RegisterResume(call)
  \/ \E typed \in TypedNames, password \in TypedPasswords : LoginSubmit(typed, password)
  \/ \E submit \in BagToSet(logins), checked \in BOOLEAN : LoginResume(submit, checked)
  \/ Deliver

LoginSpec == Init /\ [][LoginNext]_vars

\* one browser tab: the pages are loaded, the login form is submitted when
\* the page has set it up, and logout is called from a page that is shown
PageNext ==
  \/ \E pathname \in Paths : Navigate(pathname)
  \/ \E loginForm, logoutBtn \in BOOLEAN : DOMContentLoaded(loginForm, logoutBtn)
  \/ \E typed \in TypedNames, password \in TypedPasswords :
       "submit" \in handlers /\ LoginSubmit(typed, password)
  \/ \E submit \in BagToSet(logins), checked \in BOOLEAN : LoginResume(submit, checked)
  \/ Timeout
  \/ \E confirmed \in BOOLEAN : status # "loading" /\ Logout(confirmed)
  \/ Deliver

PageSpec == Init /\ [][PageNext]_vars

\* the validators called on their own and through registerUser, one call
\* after the other
ValidatorNext ==
  \/ ret.op = "none" /\ \E password \in Strings : ValidateStrongPassword(password)
  \/ ret.op = "none" /\ \E username \in Names : ValidateUsername(username)
  \/ ret.op = "none" /\ \E userData \in PasswordForms : RegisterCall(userData)
  \/ ret.op = "none" /\ \E userData \in UsernameForms : RegisterCall(userData)
  \/ Deliver

ValidatorSpec == Init /\ [][ValidatorNext]_vars

\* the journal page of one browser tab: the script is loaded, the form is
\* submitted, entries are edited and deleted, and initLocalStorage is called
\* from the console
EditorNext ==
  \/ Tick
  \/ AppLoad
  \/ \E form \in JurnalForms : HandleSubmit(form)
  \/ \E id \in 1..MaxNow : EditJurnal(id)
  \/ \E id \in 1..MaxNow, confirmed \in BOOLEAN : DeleteJurnal(id, confirmed)
  \/ CancelEdit
  \/ InitLocalStorage
  \/ Deliver

EditorSpec == Init /\ [][EditorNext]_vars

\* the logo customizer of one browser tab: the script is loaded and the
\* setters and getHTML are called
LogoNext ==
  \/ LogoLoad
  \/ \E templateName \in TemplateArgs : SetTemplate(templateName)
  \/ \E emoji \in EmojiArgs : SetEmoji(emoji)
  \/ \E colors \in ColorArgs : SetColors(colors)
  \/ \E text \in TextArgs : SetCustomText(text)
  \/ \E size \in SizeArgs : SetSize(size)
  \/ GetHTML
  \/ Deliver

LogoSpec == Init /\ [][LogoNext]_vars

-----------------------------------------------------------------------------
(* Properties                                                              *)

\* the step is a registerUser call with input d: the call throws at a check,
\* or it reaches the hashing await
Calls(d) ==
  /\ ret.op = "none"
  /\ \/ ret'.op = "registerUser" /\ ret'.threw /\ ret'.userData = d
     \/ LET call == [userData |-> d, users |-> registeredUsers]
        IN CopiesIn(call, pending') > CopiesIn(call, pending)

\* the step is the return of a registerUser call
Returns == ret.op = "none" /\ ret'.op = "registerUser" /\ ~ret'.threw

Registered == ret.op = "registerUser" /\ ~ret.threw
Rejected == ret.op = "registerUser" /\ ret.threw

\* number of records that have the username
CountOf(users, username) ==
  Cardinality({i \in 1..Len(users) : users[i].username = username})

\* C1: no two records of the registry have the same username, also when the
\* calls that wrote them overlapped at the hashing await.
C1_UniqueUsernames ==
  \A i, j \in 1..Len(registeredUsers) :
    i # j => registeredUsers[i].username # registeredUsers[j].username

\* a call has returned while a call that presents the same username is still
\* suspended at the hashing await
C1_Witness ==
  /\ Registered
  /\ \E call \in BagToSet(pending) : call.userData.username = ret.userData.username

\* C2: the registry is append-only: every step keeps every record at its
\* position, and a registerUser call that returns has added exactly one record
\* at the end.
C2_AppendOnly ==
  [][/\ Len(registeredUsers') >= Len(registeredUsers)
     /\ \A i \in 1..Len(registeredUsers) : registeredUsers'[i] = registeredUsers[i]
     /\ Returns => Len(registeredUsers') = Len(registeredUsers) + 1]_vars

\* C3: at most one teacher registration returns successfully for an auth code.
\* Every such return marks the entry of the code as used and nothing unmarks
\* it, so a return is the first for its code exactly when the entry is still
\* unused at the moment the call returns.
C3_OneTeacherPerCode ==
  [][(Returns /\ variant = "code" /\ ret'.userData.role = "teacher")
       => isAuthCodeValid(authCodes, ret'.userData.authCode)]_vars

\* the teacher identifier of a form or of a record
IdOf(r) == IF variant = "code" THEN r.authCode ELSE r.nip

\* C4: authenticateUser called with the username and password of a
\* registration right after that registration has returned yields a view
\* without the password digest whose fields equal the registration input.
C4_LoginAfterRegister ==
  (/\ ret.op = "authenticateUser"
   /\ ret.after.op = "registerUser"
   /\ ret.username = ret.after.userData.username
   /\ ret.password = ret.after.userData.password)
  => /\ ret.value # Null
     /\ LET view == ret.value[1]
            userData == ret.after.userData
        IN /\ "passwordHash" \notin DOMAIN view
           /\ view.username = userData.username
           /\ view.fullName = userData.fullName
           /\ view.email = userData.email
           /\ view.role = userData.role
           /\ view.nisn = userData.nisn
           /\ IdOf(view) = IdOf(userData)
           /\ view.mapelMengajar = userData.mapelMengajar
           /\ view.kelasMengajar = userData.kelasMengajar

C4_Witness ==
  /\ ret.op = "authenticateUser"
  /\ ret.after.op = "registerUser"
  /\ ret.username = ret.after.userData.username
  /\ ret.password = ret.after.userData.password
  /\ ret.value # Null
  /\ ret.value[1].role = "teacher"

\* C5: a view that authenticateUser returns has every field of the stored
\* record except the password digest, createdAt included, each with the
\* stored value.
C5_ViewHasAllFields ==
  (ret.op = "authenticateUser" /\ ret.value # Null)
  => LET view == ret.value[1]
         stored == registeredUsers[findByUsername(registeredUsers, ret.username)]
     IN /\ DOMAIN view = DOMAIN stored \ {"passwordHash"}
        /\ \A f \in DOMAIN view \cap DOMAIN stored : view[f] = stored[f]

\* C6: every record of the registry has role student or teacher.
C6_RolesRegistrable ==
  \A i \in 1..Len(registeredUsers) : registeredUsers[i].role \in {"student", "teacher"}

\* C7: a registerUser call that throws at one of its checks leaves the
\* registeredUsers registry and the authCodes registry as they were.
C7_RejectWritesNothing ==
  [][(ret.op = "none" /\ ret'.op = "registerUser" /\ ret'.threw)
       => UNCHANGED <<registeredUsers, authCodes>>]_vars

\* a call was rejected when both registries had entries
C7_Witness ==
  /\ Rejected
  /\ registeredUsers # <<>>
  /\ authCodes # <<>>
  /\ ret.error.kind = "InvalidEmail"

\* the gates of registerUser, each taken alone: gate k is TRUE when the input
\* fails it against the registries
Gates(d, users, codes) ==
  LET teacher == d.role = "teacher" IN
  << d.username = <<>> \/ d.password = <<>> \/ d.fullName = "" \/ d.role = "",
     ~validateUsername(d.username),
     ~validateStrongPassword(d.password).isStrong,
     \E i \in 1..Len(users) : users[i].username = d.username,
     teacher /\ IF variant = "code" THEN ~validateTeacherAuthCode(d.authCode)
                ELSE ~validateTeacherNIP(d.nip),
     teacher /\ IF variant = "code"
                THEN ~\E i \in 1..Len(codes) :
                        /\ codes[i].code = d.authCode
                        /\ \A j \in 1..(i - 1) : codes[j].code # d.authCode
                        /\ ~codes[i].used
                ELSE \E i \in 1..Len(users) : users[i].nip = d.nip,
     teacher /\ ~validateEmail(d.email),
     teacher /\ ~validateTeacherSubject(d.mapelMengajar) >>

GateError ==
  << "MissingField", "InvalidUsername", "WeakPassword", "DuplicateUsername",
     "InvalidTeacherIdentifier",
     IF variant = "code" THEN "IdentifierNotRedeemable" ELSE "DuplicateTeacherIdentifier",
     "InvalidEmail", "InvalidSubject" >>

FailedGates(d) ==
  {k \in 1..8 : Gates(d, registeredUsers, authCodes)[k]}

\* C8: registerUser throws the error of the earliest gate its input fails, in
\* the order missing field, invalid username, weak password, duplicate
\* username, invalid teacher identifier, identifier not redeemable or
\* duplicate, invalid email, invalid subject; it goes on to hash the password
\* only when the input fails no gate.
C8_FirstFailingGate ==
  [][\A d \in AllInputs :
       Calls(d) =>
         IF FailedGates(d) = {}
         THEN ret'.op = "none"
         ELSE /\ ret'.op = "registerUser" /\ ret'.threw
              /\ \E k \in FailedGates(d) :
                   /\ \A j \in FailedGates(d) : k <= j
                   /\ ret'.error.kind = GateError[k]]_vars

\* a rejected input failed the duplicate-username gate and two later gates
C8_Witness ==
  /\ Rejected
  /\ ret.error.kind = "DuplicateUsername"
  /\ Cardinality(FailedGates(ret.userData)) >= 3

\* C9 as stated: a registerUser call that presents a username a record of the
\* registry already has fails with the duplicate-username error and the
\* registry still holds exactly one record with that username.
C9_DuplicateUsernameError ==
  [][\A d \in AllInputs :
       (Calls(d) /\ findByUsername(registeredUsers, d.username) # 0)
         => /\ ret'.op = "registerUser" /\ ret'.threw
            /\ ret'.error.kind = "DuplicateUsername"
            /\ CountOf(registeredUsers', d.username) = 1]_vars

\* C9 as amended: such a call fails and the registry still holds exactly one
\* record with the username; the error is the duplicate-username error when
\* the required fields are present and the password is strong, the
\* missing-field error when a required field is empty, and otherwise the
\* weak-password error.
C9_DuplicateUsernameRejected ==
  [][\A d \in AllInputs :
       (Calls(d) /\ findByUsername(registeredUsers, d.username) # 0)
         => /\ ret'.op = "registerUser" /\ ret'.threw
            /\ ret'.error.kind =
                 IF d.password = <<>> \/ d.fullName = "" \/ d.role = ""
                 THEN "MissingField"
                 ELSE IF ~validateStrongPassword(d.password).isStrong
                 THEN "WeakPassword"
                 ELSE "DuplicateUsername"
            /\ CountOf(registeredUsers', d.username) = 1]_vars

\* a call with a taken username was rejected as a duplicate while the
\* registry holds two records
C9_Witness ==
  /\ Rejected
  /\ ret.error.kind = "DuplicateUsername"
  /\ Len(registeredUsers) = 2
  /\ CountOf(registeredUsers, ret.userData.username) = 1

\* the code has an entry that is marked used
UsedCode(codes, code) ==
  \E i \in 1..Len(codes) : codes[i].code = code /\ codes[i].used

\* the return of a teacher registration leaves the entry of its code used and
\* stamped with the id it returns
MarksCode ==
  (Returns /\ variant = "code" /\ ret'.userData.role = "teacher")
    => \E i \in 1..Len(authCodes') :
         /\ authCodes'[i].code = ret'.userData.authCode
         /\ \A j \in 1..(i - 1) : authCodes'[j].code # ret'.userData.authCode
         /\ authCodes'[i].used
         /\ authCodes'[i].usedBy = <<ret'.value>>

\* C10 as stated: after a teacher registration that presents an issued code c
\* returns id i, the entry of c has used = true and usedBy = i, and every
\* later teacher registration that presents c is rejected with the
\* not-redeemable error.
C10_CodeConsumed ==
  [][/\ MarksCode
     /\ \A d \in AllInputs :
          (Calls(d) /\ variant = "code" /\ d.role = "teacher" /\ UsedCode(authCodes, d.authCode))
            => /\ ret'.op = "registerUser" /\ ret'.threw
               /\ ret'.error.kind = "IdentifierNotRedeemable"]_vars

\* C10 as amended: the entry of c has used = true and usedBy = i, and every
\* later teacher registration that presents c is rejected, with the
\* not-redeemable error when it passes the four gates checked before the auth
\* code (required fields, username format, password strength, duplicate
\* username).
C10_CodeConsumedRejected ==
  [][/\ MarksCode
     /\ \A d \in AllInputs :
          (Calls(d) /\ variant = "code" /\ d.role = "teacher" /\ UsedCode(authCodes, d.authCode))
            => /\ ret'.op = "registerUser" /\ ret'.threw
               /\ FailedGates(d) \cap 1..4 = {}
                    => ret'.error.kind = "IdentifierNotRedeemable"]_vars

\* a teacher registration was rejected as not redeemable because the code it
\* presents was used by the registration of another teacher
C10_Witness ==
  /\ Rejected
  /\ variant = "code"
  /\ ret.error.kind = "IdentifierNotRedeemable"
  /\ \E i \in 1..Len(authCodes), j \in 1..Len(registeredUsers) :
       /\ authCodes[i].code = ret.userData.authCode
       /\ authCodes[i].used
       /\ authCodes[i].usedBy = <<registeredUsers[j].id>>
       /\ registeredUsers[j].username # ret.userData.username

\* C11: no two entries of the auth-code store have the same code, and
\* createAuthCode throws the duplicate-code error whenever the code it would
\* store (its argument without the surrounding whitespace) is the code of an
\* entry.
C11_UniqueCodes ==
  [][/\ \A i, j \in 1..Len(authCodes') :
          i # j => authCodes'[i].code # authCodes'[j].code
     /\ \A code \in CodesIssued :
          (ret.op = "none" /\ ret'.op = "createAuthCode" /\ ret'.code = code
             /\ findCode(authCodes, trim(code)) # 0)
            => ret'.threw /\ ret'.error = Err("DuplicateCode")]_vars

\* C12: an entry of the auth-code store that has used = true stays in the
\* store with used = true at every step, whatever createAuthCode,
\* markAuthCodeUsed and registerUser calls are made.
C12_UsedStaysUsed ==
  [][\A i \in 1..Len(authCodes) :
       authCodes[i].used
         => /\ i <= Len(authCodes')
            /\ authCodes'[i].code = authCodes[i].code
            /\ authCodes'[i].used]_vars

\* markAuthCodeUsed has been called on its own, with another id, for the code
\* of a registered teacher
C12_Witness ==
  /\ ret.op = "markAuthCodeUsed"
  /\ ~ret.threw
  /\ \E i \in 1..Len(authCodes), j \in 1..Len(registeredUsers) :
       /\ authCodes[i].code = ret.code
       /\ authCodes[i].used
       /\ authCodes[i].usedBy = <<ret.userId>>
       /\ registeredUsers[j].role = "teacher"
       /\ registeredUsers[j].authCode = ret.code
       /\ registeredUsers[j].id # ret.userId

\* C13: in the NIP variant no two records of the registry have the same
\* non-empty nip, whatever roles and fields the registerUser calls presented.
C13_UniqueNips ==
  variant = "nip"
    => \A i, j \in 1..Len(registeredUsers) :
         (i # j /\ registeredUsers[i].nip # <<>>)
           => registeredUsers[i].nip # registeredUsers[j].nip

\* the step is a registerUser call of the NIP variant with teacher input d
TeacherNipCall(d) == Calls(d) /\ variant = "nip" /\ d.role = "teacher"

\* a record of the registry has the nip
NipTaken(nip) == \E i \in 1..Len(registeredUsers) : registeredUsers[i].nip = nip

ThrowsKind(kind) == ret'.op = "registerUser" /\ ret'.threw /\ ret'.error.kind = kind

\* C14 as stated: in the NIP variant a teacher registration is rejected with
\* the invalid-identifier error unless its nip is exactly 18 digits, and a
\* teacher registration whose nip is the nip of a record of the registry is
\* rejected with the duplicate-identifier error.
C14_NipErrors ==
  [][\A d \in AllInputs :
       TeacherNipCall(d)
         => /\ ~validateTeacherNIP(d.nip) => ThrowsKind("InvalidTeacherIdentifier")
            /\ NipTaken(d.nip) => ThrowsKind("DuplicateTeacherIdentifier")]_vars

\* C14 as amended: such registrations are rejected; the error is the
\* invalid-identifier error or the duplicate-identifier error when the input
\* passes the four gates checked before the nip (required fields, username
\* format, password strength, duplicate username), the duplicate-identifier
\* error being that of a nip of 18 digits.
C14_NipRejected ==
  [][\A d \in AllInputs :
       TeacherNipCall(d)
         => /\ ~validateTeacherNIP(d.nip)
                 => /\ ret'.op = "registerUser" /\ ret'.threw
                    /\ FailedGates(d) \cap 1..4 = {}
                         => ThrowsKind("InvalidTeacherIdentifier")
            /\ NipTaken(d.nip)
                 => /\ ret'.op = "registerUser" /\ ret'.threw
                    /\ (FailedGates(d) \cap 1..4 = {} /\ validateTeacherNIP(d.nip))
                         => ThrowsKind("DuplicateTeacherIdentifier")]_vars

\* a teacher registration with a new username was rejected because a record
\* has its nip
C14_Witness ==
  /\ Rejected
  /\ variant = "nip"
  /\ ret.userData.role = "teacher"
  /\ ret.error.kind = "DuplicateTeacherIdentifier"
  /\ findByUsername(registeredUsers, ret.userData.username) = 0
  /\ NipTaken(ret.userData.nip)

\* C15: every student record has an empty teacher identifier, an empty
\* subject and an empty taught class, and every teacher record has an empty
\* student id, whatever fields the registration input carried.
C15_RoleFields ==
  \A i \in 1..Len(registeredUsers) :
    LET user == registeredUsers[i]
    IN /\ user.role = "student"
            => IdOf(user) = <<>> /\ user.mapelMengajar = "" /\ user.kelasMengajar = ""
       /\ user.role = "teacher" => user.nisn = ""

\* C18: no two records of the registry have the same id, also when the calls
\* that built them read the same clock value.
C18_UniqueIds ==
  \A i, j \in 1..Len(registeredUsers) :
    i # j => registeredUsers[i].id # registeredUsers[j].id

\* C19: every teacher record of the registry has an identifier that passes
\* the format check of the variant, an email that passes validateEmail and a
\* subject that is one of the 17 subjects of VALID_SUBJECTS.
C19_TeacherRecordsValid ==
  \A i \in 1..Len(registeredUsers) :
    LET user == registeredUsers[i]
    IN user.role = "teacher"
         => /\ IF variant = "code" THEN validateTeacherAuthCode(user.authCode)
               ELSE validateTeacherNIP(user.nip)
            /\ validateEmail(user.email)
            /\ \E k \in 1..17 : VALID_SUBJECTS[k] = user.mapelMengajar

\* a teacher registration has returned and the registry holds its record
C19_Witness ==
  /\ Registered
  /\ ret.userData.role = "teacher"
  /\ \E i \in 1..Len(registeredUsers) :
       /\ registeredUsers[i].role = "teacher"
       /\ registeredUsers[i].username = ret.userData.username
       /\ registeredUsers[i].mapelMengajar = ret.userData.mapelMengajar

\* the record has no plaintext password field, a username that passes
\* validateUsername, and as digest the hash of a password that passes the
\* strength check
DigestOnly(user) ==
  /\ "password" \notin DOMAIN user
  /\ validateUsername(user.username)
  /\ \E p \in Passwords :
       validateStrongPassword(p).isStrong /\ user.passwordHash = hashPassword(p)

\* C20: every record of the registry stores as its digest the hash of the
\* password supplied at its registration and has no field with the plaintext
\* password; its username passes validateUsername and the password passed the
\* strength check.
C20_DigestOnly ==
  [][/\ \A i \in 1..Len(registeredUsers') : DigestOnly(registeredUsers'[i])
     /\ Returns
          => LET user == registeredUsers'[Len(registeredUsers')]
                 userData == ret'.userData
             IN /\ user.username = userData.username
                /\ user.passwordHash = hashPassword(userData.password)
                /\ validateStrongPassword(userData.password).isStrong]_vars

\* a registration was rejected for its weak password while the registry holds
\* the record of an earlier registration
C20_Witness ==
  /\ Rejected
  /\ ret.error.kind = "WeakPassword"
  /\ registeredUsers # <<>>
  /\ registeredUsers[1].passwordHash = hashPassword(StrongPass)

\* the step is the end of a login attempt that went through authenticateUser
LoginEnds == ret.op = "none" /\ ret'.op = "login" /\ ret'.outcome # "empty"

\* C16: the login handler uses a demo account only when the registry has no
\* account with the submitted username: an attempt whose username is
\* registered and whose password does not verify against the account's digest
\* fails and writes no session.
C16_DemoOnlyWhenUnregistered ==
  [][(LoginEnds /\ ret'.registered /\ ret'.outcome # "registered")
       => ret'.outcome = "failed" /\ session' = session]_vars

\* C17: authenticateUser returns null both for a username the registry does
\* not have and for a registered username with a password that does not
\* verify; and a login attempt that authenticateUser turned down and that
\* matches no demo account shows the same message and leaves the session slot
\* as it was, whether or not the username is registered.
C17_NoAccountOracle ==
  [][/\ \A username \in {Abc, Riyan}, password \in TypedPasswords :
          LET user == findByUsername(registeredUsers', username)
          IN (user = 0 \/ hashPassword(password) # registeredUsers'[user].passwordHash)
               => authenticateUser(registeredUsers', username, password) = Null
     /\ (LoginEnds /\ ret'.outcome # "registered"
           /\ ~demoMatch(ret'.username, ret'.password))
          => /\ ret'.outcome = "failed"
             /\ ret'.message = WrongCredentials
             /\ session' = session]_vars

\* an attempt with the wrong password of a registered account has failed
\* while the session slot holds the session of an earlier login
C17_Witness ==
  /\ ret.op = "login"
  /\ ret.outcome = "failed"
  /\ ret.registered
  /\ session # Null

\* the step is a run of the DOMContentLoaded handler
Loads == ret.op = "none" /\ ret'.op = "load"

C22_SessionFields ==
  session # Null
    => {"id", "username", "fullName", "role", "email", "loginTime"} \subseteq DOMAIN session[1]

\* the characters of a string
CharsOf(str) == {str[i] : i \in 1..Len(str)}

\* the character classes a password has no character of
Unmet(password) ==
  {class \in {"uppercase", "lowercase", "number", "special"} :
     CharsOf(password) \cap (CASE class = "uppercase" -> Upper
                               [] class = "lowercase" -> Lower
                               [] class = "number" -> Digit
                               [] class = "special" -> Special) = {}}

\* C23: validateStrongPassword reports isStrong = true exactly when the
\* password has an uppercase letter, a lowercase letter, a digit and a
\* character of the special set, and the weak-password error of registerUser
\* lists exactly the classes the password does not meet, each once.
C23_StrengthAndMissing ==
  /\ ret.op = "validateStrongPassword"
       => (ret.value.isStrong <=> Unmet(ret.password) = {})
  /\ (Rejected /\ ret.error.kind = "WeakPassword")
       => /\ CharsOf(ret.error.missing) = Unmet(ret.userData.password)
          /\ Len(ret.error.missing) = Cardinality(Unmet(ret.userData.password))

\* registerUser has rejected a password whose only special character is the
\* underscore, listing the two classes it lacks
C23_Witness ==
  /\ Rejected
  /\ ret.error.kind = "WeakPassword"
  /\ "_" \in CharsOf(ret.userData.password)
  /\ Len(ret.error.missing) = 2

\* the string has 3 to 20 characters, the first a letter, the others letters,
\* digits or underscores
WellFormedName(str) ==
  /\ Len(str) \in 3..20
  /\ Head(str) \in Upper \cup Lower
  /\ CharsOf(Tail(str)) \subseteq Upper \cup Lower \cup Digit \cup {"_"}

\* C24: validateUsername accepts a string exactly when it has 3 to 20
\* characters, the first a letter and every other one a letter, a digit or an
\* underscore; registerUser rejects every username validateUsername rejects:
\* it throws the missing-field or the invalid-username error and no call with
\* such a username reaches the hashing await.
C24_UsernameFormat ==
  /\ ret.op = "validateUsername" => (ret.value <=> WellFormedName(ret.username))
  /\ (ret.op = "registerUser" /\ ~WellFormedName(ret.userData.username))
       => ret.threw /\ ret.error.kind \in {"MissingField", "InvalidUsername"}
  /\ \A call \in BagToSet(pending) : WellFormedName(call.userData.username)

\* registerUser has rejected a username of 21 characters that has no other
\* flaw
C24_Witness ==
  /\ Rejected
  /\ ret.error.kind = "InvalidUsername"
  /\ Len(ret.userData.username) = 21
  /\ CharsOf(ret.userData.username) \subseteq Lower

\* C26: when marking the auth code fails after the teacher account was
\* appended, registerUser still returns the id of the new account, the account
\* is in the registry and nothing is thrown to the caller.
C26_MarkFailureSwallowed ==
  [][(ret.op = "none" /\ ret'.op = "registerUser" /\ pending' # pending
        /\ ret'.markThrew)
       => /\ ~ret'.threw
          /\ LET user == registeredUsers'[Len(registeredUsers')]
             IN /\ user.username = ret'.userData.username
                /\ user.role = "teacher"
                /\ ret'.value = user.id]_vars

\* a teacher registration has returned although its auth code could not be
\* marked: the account is stored and the code is still unused
C26_Witness ==
  /\ Registered
  /\ ret.markThrew
  /\ isAuthCodeValid(authCodes, ret.userData.authCode)
  /\ findByUsername(registeredUsers, ret.userData.username) # 0

\* C27: the usedBy and usedAt stamps of an auth-code entry are written once:
\* no step changes the usedBy or the usedAt of an entry that is used.
C27_StampedOnce ==
  [][\A i \in 1..Len(authCodes) :
       authCodes[i].used
         => /\ i <= Len(authCodes')
            /\ authCodes'[i].usedBy = authCodes[i].usedBy
            /\ authCodes'[i].usedAt = authCodes[i].usedAt]_vars

\* C28: every auth-code entry that is used has as usedBy the id of a record
\* that is in the registry and whose authCode is the code of the entry.
C28_UsedByRegistered ==
  variant = "code"
    => \A i \in 1..Len(authCodes) :
         authCodes[i].used
           => \E j \in 1..Len(registeredUsers) :
                /\ authCodes[i].usedBy = <<registeredUsers[j].id>>
                /\ registeredUsers[j].authCode = authCodes[i].code

\* the registry has an account with this username whose stored digest is the
\* digest of this password
RegisteredMatch(username, password) ==
  \E j \in 1..Len(registeredUsers) :
    /\ registeredUsers[j].username = username
    /\ registeredUsers[j].passwordHash = hashPassword(password)

\* the table of demo accounts has this username with this plaintext password
DemoTableMatch(username, password) ==
  \E d \in DOMAIN DEMO_USERS : d = username /\ DEMO_USERS[d].password = password

\* the step is the end of a run of the submit handler
Attempts == ret.op = "none" /\ ret'.op = "login"

\* C29: the session slot is written only by a login attempt whose credentials
\* match a registered account (digest verified) or a demo account (plaintext
\* equal), and the session written is of the submitted username; an attempt
\* that matches neither, or whose username or password is empty, leaves the
\* session slot and the remembered-username slot as they were.
C29_SessionOnlyOnMatch ==
  [][/\ (session' # session /\ session' # Null)
          => /\ Attempts
             /\ \/ RegisteredMatch(ret'.username, ret'.password)
                \/ DemoTableMatch(ret'.username, ret'.password)
             /\ session'[1].username = ret'.username
     /\ (Attempts /\ \/ ret'.username = <<>>
                     \/ ret'.password = <<>>
                     \/ /\ ~RegisteredMatch(ret'.username, ret'.password)
                        /\ ~DemoTableMatch(ret'.username, ret'.password))
          => session' = session /\ remembered' = remembered]_vars

\* an attempt with an empty field has ended while the slots hold the session
\* and the remembered username of an earlier login of a registered account
C29_Witness ==
  /\ ret.op = "login"
  /\ ret.outcome = "empty"
  /\ session # Null
  /\ "id" \in DOMAIN session[1]
  /\ remembered = <<session[1].username>>

\* the step is a call of logout()
LogsOut == ret.op = "none" /\ ret'.op = "logout"

C31_RememberedAfterLogin ==
  [][(Attempts /\ ret'.outcome \in {"registered", "demo"})
       => /\ ret'.checked => remembered' = <<ret'.username>>
          /\ ~ret'.checked => remembered' = Null]_vars

\* a demo login with the box unchecked has ended and the slot is absent
\* while the session of that login is in place
C31_Witness ==
  /\ ret.op = "login"
  /\ ret.outcome = "demo"
  /\ ~ret.checked
  /\ remembered = Null
  /\ session # Null
  /\ session[1].username = ret.username

\* C32: page-load redirects settle.  A load that redirects leaves the browser
\* on the login page with the session slot absent or on the protected page
\* with the slot present, and a load of either of these shows the page without
\* a redirect: at most one redirect happens before a page is shown.
C32_RedirectsSettle ==
  [][Loads =>
       /\ ret'.redirect # Null
            => /\ session' = session
               /\ \/ location' = LoginPath /\ session' = Null
                  \/ location' = IndexPath /\ session' # Null
       /\ (\/ location = LoginPath /\ session = Null
           \/ location = IndexPath /\ session # Null)
            => /\ ret'.redirect = Null
               /\ location' = location
               /\ status' = "shown"]_vars

\* the root was loaded while the slot held a session: the one redirect has
\* led to the protected page, whose load will show it
C32_Witness ==
  /\ ret.op = "load"
  /\ ret.currentPage = Root
  /\ ret.redirect = IndexHtml
  /\ location = IndexPath
  /\ session # Null
  /\ status = "loading"

\* the step is the return or the throw of a registerUser call
RegisterEnds == ret.op = "none" /\ ret'.op = "registerUser"

\* C33: a registerUser call whose role is not teacher leaves the authCodes
\* registry unchanged, whatever authCode its input carries: the registry
\* changes only at createAuthCode and at the return of a teacher registration.
C33_NonTeacherKeepsCodes ==
  [][/\ (RegisterEnds /\ ret'.userData.role # "teacher") => authCodes' = authCodes
     /\ authCodes' # authCodes
          => \/ ret'.op = "createAuthCode"
             \/ RegisterEnds /\ ret'.userData.role = "teacher"]_vars

\* a student registration whose input carries an auth code has returned and
\* the entry of that code is still unused
C33_Witness ==
  /\ ret.op = "registerUser"
  /\ ~ret.threw
  /\ ret.userData.role = "student"
  /\ \E i \in 1..Len(authCodes) :
       authCodes[i].code = ret.userData.authCode /\ ~authCodes[i].used
  /\ \E j \in 1..Len(registeredUsers) : registeredUsers[j].id = ret.value

\* the call is past the checks of a teacher with an auth code, so that its
\* return will run markAuthCodeUsed
WillMark(call) ==
  /\ variant = "code"
  /\ call.userData.role = "teacher"
  /\ call.userData.authCode # <<>>

C35_EditingIdPresent ==
  /\ editingId # Null => \E i \in 1..Len(jurnalData) : jurnalData[i].id = editingId[1]
  /\ ret.op = "handleSubmit" => ~ret.threw

\* the step is a run of handleSubmit
Submits == ret.op = "none" /\ ret'.op = "handleSubmit"

\* C36: a submit in edit mode replaces exactly the entry whose id is
\* editingId, keeping its id and createdAt and the number and order of the
\* entries; a submit in create mode appends exactly one entry and changes no
\* other; after either, and after cancel, editingId is null.
C36_SubmitReplacesOrAppends ==
  [][/\ (Submits /\ editingId # Null)
          => /\ \E k \in 1..Len(jurnalData) :
                  /\ jurnalData[k].id = editingId[1]
                  /\ Len(jurnalData') = Len(jurnalData)
                  /\ \A i \in 1..Len(jurnalData) : i # k => jurnalData'[i] = jurnalData[i]
                  /\ jurnalData'[k].id = jurnalData[k].id
                  /\ jurnalData'[k].createdAt = jurnalData[k].createdAt
                  /\ jurnalData'[k].uraianMateri = ret'.form.uraianMateri
             /\ editingId' = Null
     /\ (Submits /\ editingId = Null)
          => /\ Len(jurnalData') = Len(jurnalData) + 1
             /\ SubSeq(jurnalData', 1, Len(jurnalData)) = jurnalData
             /\ editingId' = Null
     /\ (ret.op = "none" /\ ret'.op = "cancelEdit") => editingId' = Null]_vars

\* C37: after initLocalStorage the journal is empty: the stored jurnalData
\* and the in-memory list that is displayed (and that every later save
\* writes) hold no entry.
C37_ResetEmptiesJournal ==
  [][(ret.op = "none" /\ ret'.op = "initLocalStorage")
       => storedJurnal' = <<>> /\ jurnalData' = <<>>]_vars

\* the step is a call of setTemplate
SetsTemplate == ret.op = "none" /\ ret'.op = "setTemplate"

\* C38: setTemplate with a name that is not a template returns false and
\* leaves the current logo and the stored logo unchanged; and, starting from
\* the default logo, after every setter call the template of the current logo
\* is a key of LOGO_TEMPLATES and the stored logo, as loadLogo reads it, is
\* the current logo.
C38_LogoStaysValid ==
  [][/\ (SetsTemplate /\ ret'.templateName \notin DOMAIN LOGO_TEMPLATES)
          => /\ ret'.value = FALSE
             /\ currentLogo' = currentLogo
             /\ storedLogo' = storedLogo
     /\ currentLogo'.template \in DOMAIN LOGO_TEMPLATES
     /\ loadLogo(storedLogo') = currentLogo']_vars

====
